---- MODULE Spec2Model ----
(***************************************************************************)
(* Gamma MCP server (src/src/index.ts): configuration resolution from the  *)
(* environment, the outbound request adapter callGamma, its response       *)
(* normalisation, and the four tool handlers that call it.                 *)
(*                                                                         *)
(* Text is modelled as a sequence of lexemes (short strings); a whitespace *)
(* character is always a lexeme of its own, so trimming is computed.       *)
(* Response bodies are byte sequences.  JavaScript values are records of   *)
(* one shape, [t, n, s, o]: type tag, number/boolean payload, string       *)
(* payload, and own properties in insertion order.                         *)
(***************************************************************************)
EXTENDS Integers, Sequences, FiniteSets, TLC

----------------------------------------------------------------------------
(* Bounds of the model *)

\* Longest response body the upstream is let to send.
MaxBodyLen == 4

----------------------------------------------------------------------------
(* JavaScript values *)

JUndef == [t |-> "undefined", n |-> 0, s |-> <<>>, o |-> <<>>]

JNull == [t |-> "null", n |-> 0, s |-> <<>>, o |-> <<>>]

JNum(k) == [t |-> "number", n |-> k, s |-> <<>>, o |-> <<>>]

JBool(b) == [t |-> "boolean", n |-> IF b THEN 1 ELSE 0, s |-> <<>>, o |-> <<>>]

JStr(x) == [t |-> "string", n |-> 0, s |-> x, o |-> <<>>]

JObj(props) == [t |-> "object", n |-> 0, s |-> <<>>, o |-> props]

\* ToBoolean: undefined, null, 0, false and "" are falsy, every object truthy.
Truthy(v) ==
    \/ v.t = "object"
    \/ v.t = "number" /\ v.n # 0
    \/ v.t = "boolean" /\ v.n = 1
    \/ v.t = "string" /\ v.s # <<>>

Digits == <<"0", "1", "2", "3", "4", "5", "6", "7", "8", "9">>

RECURSIVE NatToStr(_)
NatToStr(k) ==
    IF k < 10 THEN <<Digits[k + 1]>>
    ELSE NatToStr(k \div 10) \o <<Digits[(k % 10) + 1]>>

\* String(raw) for the scalars a search parameter can hold.
StringOf(v) ==
    CASE v.t = "string" -> v.s
      [] v.t = "number" -> NatToStr(v.n)
      [] v.t = "boolean" -> IF v.n = 1 THEN <<"true">> ELSE <<"false">>
      [] v.t = "null" -> <<"null">>
      [] v.t = "undefined" -> <<"undefined">>
      [] OTHER -> <<"[object Object]">>

RECURSIVE EscapeJson(_)
EscapeJson(x) ==
    IF x = <<>> THEN <<>>
    ELSE (IF Head(x) = "\"" THEN <<"\\", "\"">>
          ELSE IF Head(x) = "\\" THEN <<"\\", "\\">>
          ELSE <<Head(x)>>) \o EscapeJson(Tail(x))

RECURSIVE JSONStringifyProps(_, _)
RECURSIVE JSONStringify(_)
\* JSON.stringify of a value; only called on defined values.  Properties
\* holding undefined are left out of an object.
JSONStringify(v) ==
    CASE v.t = "null" -> <<"null">>
      [] v.t = "number" -> NatToStr(v.n)
      [] v.t = "boolean" -> IF v.n = 1 THEN <<"true">> ELSE <<"false">>
      [] v.t = "string" -> <<"\"">> \o EscapeJson(v.s) \o <<"\"">>
      [] v.t = "object" -> <<"{">> \o JSONStringifyProps(v.o, TRUE) \o <<"}">>
      [] OTHER -> <<>>

JSONStringifyProps(props, first) ==
    IF props = <<>> THEN <<>>
    ELSE IF Head(props)[2].t = "undefined"
         THEN JSONStringifyProps(Tail(props), first)
         ELSE (IF first THEN <<>> ELSE <<",">>)
              \o <<"\"">> \o EscapeJson(<<Head(props)[1]>>) \o <<"\"", ":">>
              \o JSONStringify(Head(props)[2])
              \o JSONStringifyProps(Tail(props), FALSE)

----------------------------------------------------------------------------
(* Text *)

WhiteSpace == {" ", "\t", "\n"}

RECURSIVE TrimStart(_)
TrimStart(x) ==
    IF x # <<>> /\ Head(x) \in WhiteSpace THEN TrimStart(Tail(x)) ELSE x

RECURSIVE TrimEnd(_)
TrimEnd(x) ==
    IF x # <<>> /\ x[Len(x)] \in WhiteSpace
    THEN TrimEnd(SubSeq(x, 1, Len(x) - 1))
    ELSE x

\* String.prototype.trim
Trim(x) == TrimEnd(TrimStart(x))

\* process.env.X?.trim(): undefined stays undefined.
OptTrim(v) == IF v.t = "undefined" THEN JUndef ELSE JStr(Trim(v.s))

\* a || b
Or(a, b) == IF Truthy(a) THEN a ELSE b

----------------------------------------------------------------------------
(* Configuration resolver *)

CANONICAL_CONST == "GAMMA_MCP"

NS_BASE_URL == "GAMMA_MCP_GAMMA_BASE_URL"

LEGACY_BASE_URL == "GAMMA_BASE_URL"

NS_API_KEY == "GAMMA_MCP_GAMMA_API_KEY"

LEGACY_API_KEY == "GAMMA_API_KEY"

EnvNames == {NS_BASE_URL, LEGACY_BASE_URL, NS_API_KEY, LEGACY_API_KEY}

DEFAULT_BASE_URL == <<"https:", "//", "public-api.gamma.app">>

\* Mutant: the legacy variable is consulted before the namespaced one.
getBaseUrl_LegacyFirst(e) ==
    LET namespaced == OptTrim(e[NS_BASE_URL])
        fallback == OptTrim(e[LEGACY_BASE_URL])
    IN  Or(Or(fallback, namespaced), JStr(DEFAULT_BASE_URL)).s

getBaseUrl(e) ==
    LET namespaced == OptTrim(e[NS_BASE_URL])
        fallback == OptTrim(e[LEGACY_BASE_URL])
    IN  Or(Or(namespaced, fallback), JStr(DEFAULT_BASE_URL)).s

\* Mutant: the values are not trimmed before the emptiness test.
getApiKey_NoTrim(e) ==
    LET value == Or(e[NS_API_KEY], e[LEGACY_API_KEY])
    IN  IF ~Truthy(value) THEN JUndef ELSE value

\* The value getApiKey returns, or JUndef when it throws.
getApiKey(e) ==
    LET namespaced == OptTrim(e[NS_API_KEY])
        fallback == OptTrim(e[LEGACY_API_KEY])
        value == Or(namespaced, fallback)
    IN  IF ~Truthy(value) THEN JUndef ELSE value

----------------------------------------------------------------------------
(* URLs *)

UrlSchemes == {"https:", "http:"}

UrlDelims == {"/", "//", "?", "#", "&", "="}

\* Whether the URL parser accepts x as a base: scheme, "//", one host
\* lexeme, then nothing or a path that starts with "/".
ValidBase(x) ==
    /\ Len(x) >= 3
    /\ x[1] \in UrlSchemes
    /\ x[2] = "//"
    /\ x[3] \notin (WhiteSpace \cup UrlDelims)
    /\ Len(x) > 3 => x[4] = "/"
    /\ \A i \in 4..Len(x) : x[i] \notin (WhiteSpace \cup {"?", "#", "//"})

Origin(x) == SubSeq(x, 1, 3)

BasePath(x) == IF Len(x) = 3 THEN <<"/">> ELSE SubSeq(x, 4, Len(x))

RECURSIVE DirOf(_)
\* The path up to and including its last "/".
DirOf(p) ==
    IF p = <<>> \/ p[Len(p)] = "/" THEN p
    ELSE DirOf(SubSeq(p, 1, Len(p) - 1))

NoUrl == [valid |-> FALSE, origin |-> <<>>, pathname |-> <<>>, search |-> <<>>]

\* new URL(path, base) for a relative reference path; valid = FALSE stands
\* for the TypeError the constructor throws.  A reference that starts with
\* "/" replaces the base's path, any other is resolved against its directory.
NewURL(path, base) ==
    IF ~ValidBase(base) THEN NoUrl
    ELSE [valid |-> TRUE,
          origin |-> Origin(base),
          pathname |-> IF path = <<>> THEN BasePath(base)
                       ELSE IF Head(path) = "/" THEN path
                       ELSE DirOf(BasePath(base)) \o path,
          search |-> <<>>]

\* encodeURIComponent, lexeme by lexeme: the reserved characters are
\* percent-encoded, everything else is kept.
EncodeLexeme(c) ==
    CASE c = "/" -> "%2F"
      [] c = "?" -> "%3F"
      [] c = "#" -> "%23"
      [] c = "&" -> "%26"
      [] c = "=" -> "%3D"
      [] c = " " -> "%20"
      [] c = "\t" -> "%09"
      [] c = "\n" -> "%0A"
      [] OTHER -> c

RECURSIVE encodeURIComponent(_)
encodeURIComponent(x) ==
    IF x = <<>> THEN <<>>
    ELSE <<EncodeLexeme(Head(x))>> \o encodeURIComponent(Tail(x))

HasKey(search, key) == \E i \in 1..Len(search) : search[i][1] = key

FirstIndex(search, key) ==
    CHOOSE i \in 1..Len(search) :
        /\ search[i][1] = key
        /\ \A j \in 1..(i - 1) : search[j][1] # key

RECURSIVE DropKeyAfter(_, _, _)
DropKeyAfter(search, key, from) ==
    IF search = <<>> THEN <<>>
    ELSE (IF from <= 0 /\ Head(search)[1] = key THEN <<>> ELSE <<Head(search)>>)
         \o DropKeyAfter(Tail(search), key, from - 1)

\* URLSearchParams.set: replace the first pair of that name and drop the
\* others, or append when there is none.
SearchSet(search, key, value) ==
    IF HasKey(search, key)
    THEN LET i == FirstIndex(search, key)
         IN  DropKeyAfter([search EXCEPT ![i] = <<key, value>>], key, i)
    ELSE Append(search, <<key, value>>)

RECURSIVE SerializeSearch(_, _)
SerializeSearch(search, first) ==
    IF search = <<>> THEN <<>>
    ELSE (IF first THEN <<"?">> ELSE <<"&">>)
         \o <<Head(search)[1], "=">> \o encodeURIComponent(Head(search)[2])
         \o SerializeSearch(Tail(search), FALSE)

\* url.href
Href(url) == url.origin \o url.pathname \o SerializeSearch(url.search, TRUE)

----------------------------------------------------------------------------
(* Bytes: JSON decoding of a body, base64 *)

\* The printable ASCII characters, Ascii[b - 31] for a byte b in 32..126
\* (byte 96 is spelled GRAVE: the character cannot be written in a string).
Ascii ==
  <<
    " ", "!", "\"", "#", "$", "%", "&", "'", "(", ")",
    "*", "+", ",", "-", ".", "/", "0", "1", "2", "3",
    "4", "5", "6", "7", "8", "9", ":", ";", "<", "=",
    ">", "?", "@", "A", "B", "C", "D", "E", "F", "G",
    "H", "I", "J", "K", "L", "M", "N", "O", "P", "Q",
    "R", "S", "T", "U", "V", "W", "X", "Y", "Z", "[",
    "\\", "]", "^", "_", "GRAVE", "a", "b", "c", "d", "e",
    "f", "g", "h", "i", "j", "k", "l", "m", "n", "o",
    "p", "q", "r", "s", "t", "u", "v", "w", "x", "y",
    "z", "{", "|", "}", "~"
  >>

Chr(b) == Ascii[b - 31]

JsonSpace == {32, 9, 10, 13}

RECURSIVE SkipSpace(_)
SkipSpace(b) ==
    IF b # <<>> /\ Head(b) \in JsonSpace THEN SkipSpace(Tail(b)) ELSE b

RECURSIVE SkipSpaceEnd(_)
SkipSpaceEnd(b) ==
    IF b # <<>> /\ b[Len(b)] \in JsonSpace
    THEN SkipSpaceEnd(SubSeq(b, 1, Len(b) - 1))
    ELSE b

TextBytes(b) == [i \in 1..Len(b) |-> Chr(b[i])]

RECURSIVE DigitsValue(_, _)
DigitsValue(b, acc) ==
    IF b = <<>> THEN acc
    ELSE DigitsValue(Tail(b), acc * 10 + (Head(b) - 48))

ParseFail == [ok |-> FALSE, value |-> JUndef]

ParseOk(v) == [ok |-> TRUE, value |-> v]

\* JSON.parse of the body text, for the documents the model's bodies can
\* spell: null, true, false, a non-negative integer, a string without
\* escapes, the empty object; surrounded by optional white space.  Anything
\* else among the model's bodies is not JSON (ok = FALSE stands for the
\* SyntaxError).
JSONParse(bytes) ==
    LET b == SkipSpaceEnd(SkipSpace(bytes))
        n == Len(b)
    IN  IF n = 0 THEN ParseFail
        ELSE IF b = <<110, 117, 108, 108>> THEN ParseOk(JNull)
        ELSE IF b = <<116, 114, 117, 101>> THEN ParseOk(JBool(TRUE))
        ELSE IF b = <<102, 97, 108, 115, 101>> THEN ParseOk(JBool(FALSE))
        ELSE IF b = <<123, 125>> THEN ParseOk(JObj(<<>>))
        ELSE IF /\ \A i \in 1..n : b[i] \in 48..57
                /\ n > 1 => b[1] # 48
             THEN ParseOk(JNum(DigitsValue(b, 0)))
        ELSE IF /\ n >= 2
                /\ b[1] = 34
                /\ b[n] = 34
                /\ \A i \in 2..(n - 1) : b[i] \in (32..126) \ {34, 92}
             THEN ParseOk(JStr(TextBytes(SubSeq(b, 2, n - 1))))
        ELSE ParseFail

Base64Alphabet ==
  <<
    "A", "B", "C", "D", "E", "F", "G", "H", "I", "J", "K", "L", "M", "N", "O", "P",
    "Q", "R", "S", "T", "U", "V", "W", "X", "Y", "Z", "a", "b", "c", "d", "e", "f",
    "g", "h", "i", "j", "k", "l", "m", "n", "o", "p", "q", "r", "s", "t", "u", "v",
    "w", "x", "y", "z", "0", "1", "2", "3", "4", "5", "6", "7", "8", "9", "+", "/"
  >>

B64(k) == Base64Alphabet[k + 1]

RECURSIVE Base64Encode_LowBits(_)
\* Mutant: the third character of a full group takes one bit too few of the
\* third byte.
Base64Encode_LowBits(b) ==
    IF Len(b) = 0 THEN <<>>
    ELSE IF Len(b) = 1
         THEN <<B64(b[1] \div 4), B64((b[1] % 4) * 16), "=", "=">>
    ELSE IF Len(b) = 2
         THEN <<B64(b[1] \div 4),
                B64((b[1] % 4) * 16 + b[2] \div 16),
                B64((b[2] % 16) * 4), "=">>
    ELSE <<B64(b[1] \div 4),
           B64((b[1] % 4) * 16 + b[2] \div 16),
           B64((b[2] % 16) * 4 + b[3] \div 128),
           B64(b[3] % 64)>>
         \o Base64Encode_LowBits(SubSeq(b, 4, Len(b)))

RECURSIVE Base64Encode(_)
\* Buffer.prototype.toString("base64")
Base64Encode(b) ==
    IF Len(b) = 0 THEN <<>>
    ELSE IF Len(b) = 1
         THEN <<B64(b[1] \div 4), B64((b[1] % 4) * 16), "=", "=">>
    ELSE IF Len(b) = 2
         THEN <<B64(b[1] \div 4),
                B64((b[1] % 4) * 16 + b[2] \div 16),
                B64((b[2] % 16) * 4), "=">>
    ELSE <<B64(b[1] \div 4),
           B64((b[1] % 4) * 16 + b[2] \div 16),
           B64((b[2] % 16) * 4 + b[3] \div 64),
           B64(b[3] % 64)>>
         \o Base64Encode(SubSeq(b, 4, Len(b)))

----------------------------------------------------------------------------
(* The adapter: callGamma up to its fetch *)

NoOptions ==
    [path |-> <<>>, method |-> JUndef, body |-> JUndef,
     searchParams |-> JUndef, responseType |-> "undefined"]

NoRequest ==
    [method |-> <<>>, url |-> NoUrl, apiKey |-> <<>>, accept |-> "",
     contentType |-> "", hasBody |-> FALSE, body |-> <<>>]

RECURSIVE ApplySearchParams_NoSkip(_, _)
\* Mutant: undefined values are not skipped.
ApplySearchParams_NoSkip(search, entries) ==
    IF entries = <<>> THEN search
    ELSE ApplySearchParams_NoSkip(
            SearchSet(search, Head(entries)[1], StringOf(Head(entries)[2])),
            Tail(entries))

RECURSIVE ApplySearchParams(_, _)
\* for (const [key, raw] of Object.entries(options.searchParams))
ApplySearchParams(search, entries) ==
    IF entries = <<>> THEN search
    ELSE LET key == Head(entries)[1]
             raw == Head(entries)[2]
         IN  IF raw.t = "undefined"
             THEN ApplySearchParams(search, Tail(entries))
             ELSE ApplySearchParams(SearchSet(search, key, StringOf(raw)),
                                    Tail(entries))

\* options.method ?? (options.body ? "POST" : "GET")
RequestMethod(options) ==
    IF options.method.t # "undefined" THEN options.method.s
    ELSE IF Truthy(options.body) THEN <<"POST">> ELSE <<"GET">>

ConfigMessage ==
    <<"Gamma MCP requires the GAMMA_MCP_GAMMA_API_KEY environment variable to be set.">>

\* The synchronous part of callGamma in environment e: the exception it
\* throws, or the one request it hands to fetch.
callGammaSync(options, e) ==
    LET parsed == NewURL(options.path, getBaseUrl(e))
        url == IF Truthy(options.searchParams)
               THEN [parsed EXCEPT
                       !.search = ApplySearchParams(parsed.search,
                                                    options.searchParams.o)]
               ELSE parsed
        key == getApiKey(e)
        hasBody == options.body.t # "undefined"
    IN  IF ~parsed.valid
        THEN [threw |-> TRUE, name |-> "TypeError",
              message |-> <<"Invalid URL">>, request |-> NoRequest]
        ELSE IF key.t = "undefined"
        THEN [threw |-> TRUE, name |-> "Error",
              message |-> ConfigMessage, request |-> NoRequest]
        ELSE [threw |-> FALSE, name |-> "", message |-> <<>>,
              request |->
                [method |-> RequestMethod(options),
                 url |-> url,
                 apiKey |-> key.s,
                 accept |-> IF options.responseType = "binary"
                            THEN "*/*" ELSE "application/json",
                 contentType |-> IF hasBody THEN "application/json" ELSE "",
                 hasBody |-> hasBody,
                 body |-> IF hasBody THEN JSONStringify(options.body)
                          ELSE <<>>]]

----------------------------------------------------------------------------
(* Outcomes of callGamma and results of a tool *)

Pending == [kind |-> "Pending"]

\* callGamma's promise rejected with an Error of that name and message.
Thrown(name, message) == [kind |-> "Thrown", name |-> name, message |-> message]

\* callGamma's promise fulfilled: with the decoded JSON (shape "json"), a
\* Buffer of the body's bytes (shape "buffer") or undefined (204).
Returned(shape, value, bytes) ==
    [kind |-> "Returned", shape |-> shape, value |-> value, bytes |-> bytes]

FailurePrefix(response) ==
    <<"Gamma API request failed: ">> \o NatToStr(response.status)
        \o <<" ">> \o response.statusText

\* The Error thrown for a response that is not ok; detail is what
\* safeReadJson returned.
FailureMessage(response, detail) ==
    FailurePrefix(response)
        \o (IF Truthy(detail) THEN <<" - ">> \o JSONStringify(detail) ELSE <<>>)

NoResult == [kind |-> "none"]

\* The handler returned this tool result.
ToolReturn(isError, text) ==
    [kind |-> "returned", isError |-> isError, type |-> "text", text |-> text]

\* The handler's promise rejected; McpServer answers the caller with an
\* isError result whose text is the error's message.
ToolReject(name, message) ==
    [kind |-> "rejected", isError |-> TRUE, type |-> "text",
     text |-> JStr(message), name |-> name]

----------------------------------------------------------------------------
(* The tool handlers *)

GenerationsPath == <<"/", "v0.2", "/", "generations">>

NoArgs ==
    [generationId |-> JUndef, expand |-> JUndef, assetId |-> JUndef,
     status |-> JUndef, limit |-> JUndef, page |-> JUndef,
     inputText |-> JUndef, textMode |-> JUndef, format |-> JUndef,
     themeName |-> JUndef, numCards |-> JUndef, cardSplit |-> JUndef,
     additionalInstructions |-> JUndef, exportAs |-> JUndef,
     textOptions |-> JUndef, imageOptions |-> JUndef,
     cardOptions |-> JUndef, sharingOptions |-> JUndef]

NoCall == [tool |-> "none", args |-> NoArgs]

Prop(obj, key) ==
    IF \E i \in 1..Len(obj.o) : obj.o[i][1] = key
    THEN obj.o[CHOOSE i \in 1..Len(obj.o) : obj.o[i][1] = key][2]
    ELSE JUndef

SetProp(obj, key, value) ==
    [obj EXCEPT !.o = [i \in 1..Len(obj.o) |->
                         IF obj.o[i][1] = key THEN <<key, value>> ELSE obj.o[i]]]

UpperCase ==
    <<"A", "B", "C", "D", "E", "F", "G", "H", "I", "J", "K", "L", "M",
      "N", "O", "P", "Q", "R", "S", "T", "U", "V", "W", "X", "Y", "Z">>

LowerCase ==
    <<"a", "b", "c", "d", "e", "f", "g", "h", "i", "j", "k", "l", "m",
      "n", "o", "p", "q", "r", "s", "t", "u", "v", "w", "x", "y", "z">>

\* String.prototype.toLowerCase on a text spelled one character a lexeme.
ToLowerCase(x) ==
    [i \in 1..Len(x) |->
        IF \E k \in 1..26 : UpperCase[k] = x[i]
        THEN LowerCase[CHOOSE k \in 1..26 : UpperCase[k] = x[i]]
        ELSE x[i]]

japaneseAliases ==
    {<<"j", "a">>, <<"j", "p">>, <<"j", "a", "-", "j", "p">>,
     <<"j", "a", "p", "a", "n", "e", "s", "e">>,
     <<"U+65E5", "U+672C", "U+8A9E">>}

normalizedTextOptions(textOptions) ==
    IF ~Truthy(textOptions) THEN JUndef
    ELSE LET language == Prop(textOptions, "language")
         IN  IF Truthy(language)
                /\ ToLowerCase(Trim(StringOf(language))) \in japaneseAliases
             THEN SetProp(textOptions, "language", JStr(<<"j", "a">>))
             ELSE textOptions

InputTextMessage ==
    <<"inputText must be provided to create a Gamma generation.">>

\* The descriptor each handler passes to callGamma.
createGenerationOptions(a) ==
    [path |-> GenerationsPath,
     method |-> JStr(<<"POST">>),
     body |-> JObj(<<
        <<"inputText", a.inputText>>,
        <<"textMode", a.textMode>>,
        <<"format", a.format>>,
        <<"themeName", a.themeName>>,
        <<"numCards", a.numCards>>,
        <<"cardSplit", a.cardSplit>>,
        <<"additionalInstructions", a.additionalInstructions>>,
        <<"exportAs", a.exportAs>>,
        <<"textOptions", normalizedTextOptions(a.textOptions)>>,
        <<"imageOptions", a.imageOptions>>,
        <<"cardOptions", a.cardOptions>>,
        <<"sharingOptions", a.sharingOptions>> >>),
     searchParams |-> JUndef,
     responseType |-> "undefined"]

\* Mutant: the expand flag is string-coerced instead of mapped to "true" or
\* undefined.
getGenerationOptions_CoerceExpand(a) ==
    [path |-> GenerationsPath \o <<"/">> \o encodeURIComponent(a.generationId.s),
     method |-> JStr(<<"GET">>),
     body |-> JUndef,
     searchParams |-> JObj(<< <<"expand", JStr(StringOf(a.expand))>> >>),
     responseType |-> "undefined"]

getGenerationOptions(a) ==
    [path |-> GenerationsPath \o <<"/">> \o encodeURIComponent(a.generationId.s),
     method |-> JStr(<<"GET">>),
     body |-> JUndef,
     searchParams |-> JObj(<<
        <<"expand", IF Truthy(a.expand) THEN JStr(<<"true">>) ELSE JUndef>> >>),
     responseType |-> "undefined"]

listGenerationsOptions(a) ==
    [path |-> GenerationsPath,
     method |-> JStr(<<"GET">>),
     body |-> JUndef,
     searchParams |-> JObj(<<
        <<"status", a.status>>, <<"limit", a.limit>>, <<"page", a.page>> >>),
     responseType |-> "undefined"]

getAssetOptions(a) ==
    [path |-> GenerationsPath \o <<"/">> \o encodeURIComponent(a.generationId.s)
                \o <<"/", "assets", "/">> \o encodeURIComponent(a.assetId.s),
     method |-> JStr(<<"GET">>),
     body |-> JUndef,
     searchParams |-> JUndef,
     responseType |-> "binary"]

HandlerOptions(c) ==
    CASE c.tool = "gamma_create_generation" -> createGenerationOptions(c.args)
      [] c.tool = "gamma_get_generation" -> getGenerationOptions(c.args)
      [] c.tool = "gamma_list_generations" -> listGenerationsOptions(c.args)
      [] c.tool = "gamma_get_asset" -> getAssetOptions(c.args)
      [] OTHER -> NoOptions

\* Mutant: the handler catches the error and returns an empty object.
HandlerResult_Swallow(tool, o) ==
    IF o.kind = "Thrown" THEN ToolReturn(FALSE, JStr(<<"{", "}">>))
    ELSE IF tool = "gamma_get_asset"
         THEN ToolReturn(FALSE, JStr(Base64Encode(o.bytes)))
         ELSE ToolReturn(FALSE, JStr(JSONStringify(o.value)))

\* What a handler returns once callGamma has settled with outcome o.
HandlerResult(tool, o) ==
    IF o.kind = "Thrown" THEN ToolReject(o.name, o.message)
    ELSE IF tool = "gamma_get_asset"
         THEN IF o.shape = "undefined"
              THEN ToolReject("TypeError",
                     <<"Cannot read properties of undefined (reading 'toString')">>)
              ELSE ToolReturn(FALSE, JStr(Base64Encode(o.bytes)))
         ELSE ToolReturn(FALSE,
                IF o.shape = "undefined" THEN JUndef
                ELSE JStr(JSONStringify(o.value)))

----------------------------------------------------------------------------
(* Bounded inputs *)

UrlA == <<"https:", "//", "a.example", "/", "api", "/">>

UrlB == <<"https:", "//", "b.example">>

EnvValues(name) ==
    CASE name = NS_BASE_URL ->
            {JUndef, JStr(<<" ">>), JStr(<<" ">> \o UrlA \o <<"\n">>)}
      [] name = LEGACY_BASE_URL ->
            {JUndef, JStr(<<>>), JStr(UrlB \o <<" ">>),
             JStr(<<"not", " ", "a", " ", "url">>)}
      [] name = NS_API_KEY ->
            {JUndef, JStr(<<"\t">>), JStr(<<" ", "key-ns", " ">>)}
      [] name = LEGACY_API_KEY ->
            {JUndef, JStr(<<" ", " ">>), JStr(<<"key-legacy">>)}

Envs == {e \in [EnvNames -> UNION {EnvValues(n) : n \in EnvNames}] :
            \A n \in EnvNames : e[n] \in EnvValues(n)}

Gen123 == JStr(<<"gen_123">>)

GenerationIds == {Gen123, JStr(<<"a", "/", "b">>)}

LanguageJA == JObj(<< <<"language", JStr(<<" ", "J", "A">>)>> >>)

ToolCalls ==
    {[tool |-> "gamma_get_generation",
      args |-> [NoArgs EXCEPT !.generationId = g, !.expand = x]] :
        g \in GenerationIds, x \in {JUndef, JBool(TRUE), JBool(FALSE)}}
    \cup
    {[tool |-> "gamma_list_generations",
      args |-> [NoArgs EXCEPT !.status = q[1], !.limit = q[2], !.page = q[3]]] :
        q \in {<<JUndef, JUndef, JUndef>>,
               <<JStr(<<"ready">>), JNum(0), JUndef>>,
               <<JUndef, JNum(20), JNum(2)>>}}
    \cup
    {[tool |-> "gamma_get_asset",
      args |-> [NoArgs EXCEPT !.generationId = Gen123, !.assetId = x]] :
        x \in {JStr(<<"asset_1">>), JStr(<<"p", "?", "q">>)}}
    \cup
    {[tool |-> "gamma_create_generation",
      args |-> [NoArgs EXCEPT !.inputText = q[1], !.textMode = q[2],
                              !.textOptions = q[3]]] :
        q \in {<<JUndef, JUndef, JUndef>>,
               <<JStr(<<>>), JStr(<<"generate">>), JUndef>>,
               <<JStr(<<" ">>), JUndef, JUndef>>,
               <<JStr(<<"hi", " ", "there">>), JUndef, JUndef>>,
               <<JStr(<<"hi", " ", "there">>), JStr(<<"generate">>),
                 LanguageJA>>}}

Statuses == {200, 204, 404, 500}

StatusText(status) ==
    CASE status = 200 -> <<"OK">>
      [] status = 204 -> <<"No", " ", "Content">>
      [] status = 404 -> <<"Not", " ", "Found">>
      [] OTHER -> <<"Internal", " ", "Server", " ", "Error">>

\* Bodies the upstream may send: JSON documents, text that is not JSON, and
\* binary data of every length up to 5.
BodyPool ==
    {<<>>,
     <<48>>,                    \* 0
     <<110, 117, 108, 108>>,    \* null
     <<102, 97, 108, 115, 101>>,\* false
     <<34, 34>>,                \* ""
     <<34, 97, 34>>,            \* "a"
     <<123, 125>>,              \* {}
     <<32, 55, 10>>,            \* 7 between white space
     <<60>>,                    \* <
     <<255>>,
     <<255, 0>>,
     <<77, 97, 110>>,
     <<0, 16, 131, 255>>,
     <<251, 239, 190, 1, 2>>}

Bodies == {b \in BodyPool : Len(b) <= MaxBodyLen}

NoResponse == [status |-> 0, statusText |-> <<>>, body |-> <<>>]

\* A response with status 204 has no body.
Responses ==
    {[status |-> st, statusText |-> StatusText(st), body |-> b] :
        st \in Statuses \ {204}, b \in Bodies}
    \cup {[status |-> 204, statusText |-> StatusText(204), body |-> <<>>]}

Ok(response) == response.status \in 200..299

----------------------------------------------------------------------------
(* State *)

VARIABLES
    env,        \* process.env, the four variables the resolver reads
    pc,         \* where the one invocation in progress stands
    call,       \* the tool called and its arguments
    options,    \* the descriptor handed to callGamma
    requests,   \* the requests this invocation handed to fetch, in order
    response,   \* the response fetch resolved with
    bodyReads,  \* how often this invocation read the response body
    warnings,   \* console.warn calls of this invocation
    outcome,    \* how callGamma's promise settled
    result,     \* what the tool call comes to at the tool boundary
    lastUsed    \* history: the configuration the last recorded request used

vars == <<env, pc, call, options, requests, response, bodyReads, warnings,
          outcome, result, lastUsed>>

\* The server keeps no configuration between invocations; nothing is recorded
\* yet.
NoConfig == [recorded |-> FALSE, origin |-> <<>>, apiKey |-> <<>>]

Idle ==
    /\ pc = "idle"
    /\ call = NoCall
    /\ options = NoOptions
    /\ requests = <<>>
    /\ response = NoResponse
    /\ bodyReads = 0
    /\ warnings = 0
    /\ outcome = Pending
    /\ result = NoResult

Init ==
    /\ env \in Envs
    /\ Idle
    /\ lastUsed = NoConfig

\* Mutant: the base URL and key resolved for an earlier request are kept and
\* reused instead of being read from the environment again.
Enter_Cached(c, opts) ==
    LET r == callGammaSync(opts, env)
        request == IF lastUsed.recorded
                   THEN [r.request EXCEPT !.apiKey = lastUsed.apiKey,
                                          !.url.origin = lastUsed.origin]
                   ELSE r.request
    IN  /\ call' = c
        /\ options' = opts
        /\ IF r.threw
           THEN /\ outcome' = Thrown(r.name, r.message)
                /\ requests' = requests
                /\ pc' = "settled"
           ELSE /\ outcome' = outcome
                /\ requests' = Append(requests, request)
                /\ pc' = "fetching"
        /\ UNCHANGED <<env, lastUsed, response, bodyReads, warnings, result>>

\* callGamma(opts) is entered for call c: it throws, or reaches its fetch.
Enter(c, opts) ==
    LET r == callGammaSync(opts, env)
    IN  /\ call' = c
        /\ options' = opts
        /\ IF r.threw
           THEN /\ outcome' = Thrown(r.name, r.message)
                /\ requests' = requests
                /\ pc' = "settled"
           ELSE /\ outcome' = outcome
                /\ requests' = Append(requests, r.request)
                /\ pc' = "fetching"
        /\ UNCHANGED <<env, lastUsed, response, bodyReads, warnings, result>>

\* A tool is called: its handler runs up to its first await.
\* Mutant: create-generation without its inputText guard.
ToolCall_NoGuard(c) ==
    /\ pc = "idle"
    /\ Enter(c, HandlerOptions(c))

ToolCall(c) ==
    /\ pc = "idle"
    /\ IF c.tool = "gamma_create_generation" /\ ~Truthy(c.args.inputText)
       THEN /\ call' = c
            /\ result' = ToolReturn(TRUE, JStr(InputTextMessage))
            /\ pc' = "done"
            /\ UNCHANGED <<env, lastUsed, options, requests, response, bodyReads,
                           warnings, outcome>>
       ELSE Enter(c, HandlerOptions(c))

\* fetch sends no GET or HEAD request that has a body: it rejects.
Sendable(request) ==
    ~(request.hasBody /\ request.method \in {<<"GET">>, <<"HEAD">>})

\* Mutant: the binary branch is taken before the 204 test.
FetchResolve_BinaryFirst(resp) ==
    /\ pc = "fetching"
    /\ Sendable(requests[Len(requests)])
    /\ response' = resp
    /\ IF ~Ok(resp)
       THEN pc' = "safeReadJson" /\ outcome' = outcome
       ELSE IF options.responseType = "binary"
       THEN pc' = "arrayBuffer" /\ outcome' = outcome
       ELSE IF resp.status = 204
       THEN pc' = "settled" /\ outcome' = Returned("undefined", JUndef, <<>>)
       ELSE pc' = "json" /\ outcome' = outcome
    /\ UNCHANGED <<env, lastUsed, call, options, requests, bodyReads, warnings, result>>

\* Mutant: a response that is not ok is retried once.
FetchResolve_Retry(resp) ==
    /\ pc = "fetching"
    /\ Sendable(requests[Len(requests)])
    /\ IF ~Ok(resp) /\ Len(requests) < 2
       THEN /\ requests' = Append(requests, requests[1])
            /\ pc' = "fetching"
            /\ UNCHANGED <<response, outcome>>
       ELSE /\ response' = resp
            /\ requests' = requests
            /\ IF ~Ok(resp)
               THEN pc' = "safeReadJson" /\ outcome' = outcome
               ELSE IF resp.status = 204
               THEN pc' = "settled" /\ outcome' = Returned("undefined", JUndef, <<>>)
               ELSE IF options.responseType = "binary"
               THEN pc' = "arrayBuffer" /\ outcome' = outcome
               ELSE pc' = "json" /\ outcome' = outcome
    /\ UNCHANGED <<env, lastUsed, call, options, bodyReads, warnings, result>>

\* await fetch(url, init) resolves with a response; callGamma runs on to its
\* next await or to its end.
FetchResolve(resp) ==
    /\ pc = "fetching"
    /\ Sendable(requests[Len(requests)])
    /\ response' = resp
    /\ IF ~Ok(resp)
       THEN pc' = "safeReadJson" /\ outcome' = outcome
       ELSE IF resp.status = 204
       THEN pc' = "settled" /\ outcome' = Returned("undefined", JUndef, <<>>)
       ELSE IF options.responseType = "binary"
       THEN pc' = "arrayBuffer" /\ outcome' = outcome
       ELSE pc' = "json" /\ outcome' = outcome
    /\ UNCHANGED <<env, lastUsed, call, options, requests, bodyReads, warnings, result>>

\* await fetch(url, init) rejects: the call could not complete.
FetchReject ==
    /\ pc = "fetching"
    /\ outcome' = Thrown("TypeError", <<"fetch failed">>)
    /\ pc' = "settled"
    /\ UNCHANGED <<env, lastUsed, call, options, requests, response, bodyReads,
                   warnings, result>>

\* The detail safeReadJson returns for the body, undefined when it does not
\* decode.
safeReadJson(body) ==
    LET parsed == JSONParse(body)
    IN  IF parsed.ok THEN parsed.value ELSE JUndef

\* await safeReadJson(response) completes and the Error is thrown.
ReadErrorBody ==
    /\ pc = "safeReadJson"
    /\ bodyReads' = bodyReads + 1
    /\ warnings' = IF JSONParse(response.body).ok THEN warnings ELSE warnings + 1
    /\ outcome' = Thrown("Error",
                         FailureMessage(response, safeReadJson(response.body)))
    /\ pc' = "settled"
    /\ UNCHANGED <<env, lastUsed, call, options, requests, response, result>>

\* Buffer.from(await response.arrayBuffer())
ReadArrayBuffer ==
    /\ pc = "arrayBuffer"
    /\ bodyReads' = bodyReads + 1
    /\ outcome' = Returned("buffer", JUndef, response.body)
    /\ pc' = "settled"
    /\ UNCHANGED <<env, lastUsed, call, options, requests, response, warnings, result>>

\* await response.json()
ReadJson ==
    /\ pc = "json"
    /\ bodyReads' = bodyReads + 1
    /\ outcome' = LET parsed == JSONParse(response.body)
                  IN  IF parsed.ok THEN Returned("json", parsed.value, <<>>)
                      ELSE Thrown("SyntaxError", <<"Unexpected token">>)
    /\ pc' = "settled"
    /\ UNCHANGED <<env, lastUsed, call, options, requests, response, warnings, result>>

\* The handler resumes after await callGamma(...) and returns or rejects.
HandlerResume ==
    /\ pc = "settled"
    /\ call.tool # "callGamma"
    /\ result' = HandlerResult(call.tool, outcome)
    /\ pc' = "done"
    /\ UNCHANGED <<env, lastUsed, call, options, requests, response, bodyReads,
                   warnings, outcome>>

\* The invocation is over; its values are dropped.
Finish ==
    /\ \/ pc = "done"
       \/ pc = "settled" /\ call.tool = "callGamma"
    /\ pc' = "idle"
    /\ call' = NoCall
    /\ options' = NoOptions
    /\ requests' = <<>>
    /\ response' = NoResponse
    /\ bodyReads' = 0
    /\ warnings' = 0
    /\ outcome' = Pending
    /\ result' = NoResult
    /\ UNCHANGED <<env, lastUsed>>

\* The environment changes (a key is rotated, the base URL repointed).  The
\* server itself never writes process.env; the model lets it change between
\* invocations.
SetEnv(name, value) ==
    /\ pc = "idle"
    /\ value # env[name]
    /\ env' = [env EXCEPT ![name] = value]
    /\ UNCHANGED <<lastUsed, pc, call, options, requests, response, bodyReads,
                   warnings, outcome, result>>

Next ==
    \/ \E c \in ToolCalls : ToolCall(c)
    \/ \E resp \in Responses : FetchResolve(resp)
    \/ FetchReject
    \/ ReadErrorBody
    \/ ReadArrayBuffer
    \/ ReadJson
    \/ HandlerResume
    \/ Finish
    \/ \E name \in EnvNames : \E value \in EnvValues(name) : SetEnv(name, value)

Spec == Init /\ [][Next]_vars

----------------------------------------------------------------------------
(* The adapter on its own: callGamma applied to descriptors of every shape *)
(* GammaRequestOptions allows, not only those the four handlers build.     *)

BodyValues ==
    {JUndef, JNull, JNum(0), JNum(7), JBool(FALSE), JBool(TRUE), JStr(<<>>),
     JStr(<<"x">>), JObj(<<>>), JObj(<< <<"k", JNum(1)>> >>)}

ParamValues ==
    {JUndef, JNum(0), JNum(20), JBool(FALSE), JBool(TRUE), JStr(<<>>),
     JStr(<<"undefined">>), JStr(<<"a", " ", "b">>)}

SearchParamSets ==
    {JUndef, JObj(<<>>)}
    \cup {JObj(<< <<"limit", v>>, <<"page", w>> >>) : v, w \in ParamValues}

Descriptors ==
    {[path |-> p, method |-> m, body |-> b, searchParams |-> JUndef,
      responseType |-> "undefined"] :
        p \in {GenerationsPath, <<"assets">>},
        m \in {JUndef, JStr(<<"GET">>), JStr(<<"PUT">>)},
        b \in BodyValues}
    \cup
    {[path |-> GenerationsPath, method |-> JUndef, body |-> JUndef,
      searchParams |-> q, responseType |-> "undefined"] :
        q \in SearchParamSets}
    \cup
    {[path |-> GenerationsPath, method |-> JUndef, body |-> JUndef,
      searchParams |-> JUndef, responseType |-> t] :
        t \in {"json", "binary"}}

AdapterEnvs ==
    {e \in Envs : e[NS_BASE_URL] = JUndef /\ e[LEGACY_API_KEY] = JUndef}

AdapterInit ==
    /\ env \in AdapterEnvs
    /\ Idle
    /\ lastUsed = NoConfig

\* callGamma(opts) is called directly.
AdapterCall(opts) ==
    /\ pc = "idle"
    /\ Enter([tool |-> "callGamma", args |-> NoArgs], opts)

AdapterNext ==
    \/ \E opts \in Descriptors : AdapterCall(opts)
    \/ \E resp \in Responses : FetchResolve(resp)
    \/ FetchReject
    \/ ReadErrorBody
    \/ ReadArrayBuffer
    \/ ReadJson
    \/ Finish

AdapterSpec == AdapterInit /\ [][AdapterNext]_vars

----------------------------------------------------------------------------
(* Vocabulary of the properties *)

\* An environment value that is set to something other than white space.
NonBlank(v) == v.t = "string" /\ \E i \in 1..Len(v.s) : v.s[i] \notin WhiteSpace

\* t is x without its leading and trailing white space.
IsTrimOf(t, x) ==
    \E a, b \in 0..Len(x) :
        /\ a + b <= Len(x)
        /\ t = SubSeq(x, a + 1, Len(x) - b)
        /\ \A k \in 1..a : x[k] \in WhiteSpace
        /\ \A k \in (Len(x) - b + 1)..Len(x) : x[k] \in WhiteSpace
        /\ t # <<>> => (t[1] \notin WhiteSpace /\ t[Len(t)] \notin WhiteSpace)

\* Both API-key variables are unset, empty or white space only.
KeysBlank(e) == ~NonBlank(e[NS_API_KEY]) /\ ~NonBlank(e[LEGACY_API_KEY])

\* callGamma has been entered by the invocation in progress.
Entered == options # NoOptions

\* callGamma's promise has settled.
Settled == pc \in {"settled", "done"} /\ Entered

ConfigurationError == Thrown("Error", ConfigMessage)

----------------------------------------------------------------------------
(* C1 *)

\* C1 as stated: whenever both API-key variables are unset, empty or white
\* space only, the invocation of callGamma ends in the configuration error
\* and issues no fetch.
C1_EndsInConfigurationError ==
    (Settled /\ KeysBlank(env)) =>
        (outcome = ConfigurationError /\ requests = <<>>)

\* C1, amended: whenever both API-key variables are unset, empty or white
\* space only, the invocation of callGamma issues no fetch and ends in an
\* error: the configuration error when the resolved base URL parses, the URL
\* constructor's TypeError (thrown before the key is looked up) when it does
\* not.  No request ever carries an empty or white-space token.
C1_FailsClosed ==
    /\ (Entered /\ KeysBlank(env)) =>
          /\ requests = <<>>
          /\ pc \in {"settled", "done"}
          /\ response = NoResponse
          /\ IF ValidBase(getBaseUrl(env))
             THEN outcome = ConfigurationError
             ELSE outcome = Thrown("TypeError", <<"Invalid URL">>)
    /\ \A i \in 1..Len(requests) :
          \E k \in 1..Len(requests[i].apiKey) :
              requests[i].apiKey[k] \notin WhiteSpace

\* Both key variables hold white space, the base URL parses, and callGamma
\* has thrown the configuration error.
C1_Witness ==
    /\ Settled
    /\ env[NS_API_KEY] = JStr(<<"\t">>)
    /\ env[LEGACY_API_KEY] = JStr(<<" ", " ">>)
    /\ outcome = ConfigurationError

\* The base URL does not parse and the keys are blank: the TypeError case.
C1_WitnessInvalidUrl ==
    /\ Settled
    /\ KeysBlank(env)
    /\ outcome = Thrown("TypeError", <<"Invalid URL">>)

----------------------------------------------------------------------------
(* C2 *)

\* C2: the base URL is the trimmed namespaced value when that is not blank,
\* else the trimmed legacy value when that is not blank, else the hardcoded
\* default; and the request an invocation issues goes to that base's origin.
C2_BaseUrlOrder ==
    LET ns == env[NS_BASE_URL]
        legacy == env[LEGACY_BASE_URL]
        base == getBaseUrl(env)
    IN  /\ NonBlank(ns) => IsTrimOf(base, ns.s)
        /\ (~NonBlank(ns) /\ NonBlank(legacy)) => IsTrimOf(base, legacy.s)
        /\ (~NonBlank(ns) /\ ~NonBlank(legacy)) =>
              base = <<"https:", "//", "public-api.gamma.app">>
        /\ requests # <<>> =>
              requests[1].url.origin = SubSeq(base, 1, 3)

\* Both variables hold a URL and a request went to the namespaced one.
C2_Witness ==
    /\ NonBlank(env[NS_BASE_URL])
    /\ NonBlank(env[LEGACY_BASE_URL])
    /\ requests # <<>>
    /\ requests[1].url.origin = <<"https:", "//", "a.example">>

----------------------------------------------------------------------------
(* C3 *)

\* C3: a request whose descriptor names no method is a POST when the
\* descriptor has a body (any defined value) and a GET when it has none.
C3_MethodDefault ==
    (requests # <<>> /\ options.method = JUndef) =>
        requests[1].method =
            IF options.body # JUndef THEN <<"POST">> ELSE <<"GET">>

----------------------------------------------------------------------------
(* C4 *)

RECURSIVE DecimalValue(_, _)
\* The number a text of decimal digits spells, -1 when it is no such text.
DecimalValue(text, acc) ==
    IF text = <<>> THEN acc
    ELSE IF \E d \in 1..10 : Digits[d] = Head(text)
         THEN DecimalValue(Tail(text),
                acc * 10 + (CHOOSE d \in 1..10 : Digits[d] = Head(text)) - 1)
         ELSE -1

\* text is the string form of the scalar v.
Spells(text, v) ==
    CASE v.t = "string" -> text = v.s
      [] v.t = "boolean" -> text = <<IF v.n = 1 THEN "true" ELSE "false">>
      [] v.t = "number" -> /\ text # <<>>
                           /\ DecimalValue(text, 0) = v.n
                           /\ Len(text) > 1 => Head(text) # "0"
      [] OTHER -> FALSE

GivenParams ==
    IF options.searchParams.t = "object" THEN options.searchParams.o ELSE <<>>

\* C4: the query of the request holds exactly the keys of searchParams whose
\* value is not undefined, each once and with the string form of its value;
\* a key whose value is undefined is not in the query.
C4_QuerySerialization ==
    requests # <<>> =>
        LET query == requests[1].url.search
        IN  /\ \A i \in 1..Len(GivenParams) :
                  GivenParams[i][2] # JUndef =>
                      \E j \in 1..Len(query) :
                          /\ query[j][1] = GivenParams[i][1]
                          /\ Spells(query[j][2], GivenParams[i][2])
            /\ \A j \in 1..Len(query) :
                  \E i \in 1..Len(GivenParams) :
                      /\ GivenParams[i][1] = query[j][1]
                      /\ GivenParams[i][2] # JUndef
            /\ \A j, k \in 1..Len(query) : query[j][1] = query[k][1] => j = k

\* A request was issued for { limit: 0, page: undefined }: its query is
\* limit=0 alone.
C4_Witness ==
    /\ requests # <<>>
    /\ options.searchParams = JObj(<< <<"limit", JNum(0)>>, <<"page", JUndef>> >>)
    /\ requests[1].url.search = << <<"limit", <<"0">>>> >>

\* A request was issued for { limit: false, page: 20 }.
C4_WitnessFalse ==
    /\ requests # <<>>
    /\ options.searchParams = JObj(<< <<"limit", JBool(FALSE)>>, <<"page", JNum(20)>> >>)
    /\ requests[1].url.search = << <<"limit", <<"false">>>>, <<"page", <<"2", "0">>>> >>

----------------------------------------------------------------------------
(* C5 *)

\* C5: a response that is not 2xx ends the call in a Failure that carries
\* the status code and status text and, when the body decodes as JSON (for
\* every JSON value), the decoded body as detail; when the body does not
\* decode, the Failure carries no detail.
C5_FailureCarriesDetail ==
    (Settled /\ response # NoResponse /\ response.status \notin 200..299) =>
        /\ outcome.kind = "Thrown"
        /\ outcome.name = "Error"
        /\ outcome.message =
              <<"Gamma API request failed: ">> \o NatToStr(response.status)
                 \o <<" ">> \o response.statusText
                 \o (IF JSONParse(response.body).ok
                     THEN <<" - ">> \o JSONStringify(JSONParse(response.body).value)
                     ELSE <<>>)

----------------------------------------------------------------------------
(* C6 *)

\* The adapter call of the finished invocation failed: no credential, a base
\* URL that does not parse, no response (transport failure), a response that
\* is not 2xx, or a 2xx response whose body is not JSON where JSON is expected.
AdapterFailed ==
    \/ KeysBlank(env)
    \/ ~ValidBase(getBaseUrl(env))
    \/ response = NoResponse
    \/ response.status \notin 200..299
    \/ /\ response.status # 204
       /\ options.responseType # "binary"
       /\ ~JSONParse(response.body).ok

\* C6: every invocation whose adapter call failed ends at the tool boundary
\* as an error-flagged result with a message, never as a result that is not
\* flagged; the only thing suppressed (warned about and dropped) is a failed
\* decode of an error body, and the invocation is an error all the same.
C6_ErrorsPropagate ==
    /\ (pc = "done" /\ Entered /\ AdapterFailed) =>
          /\ result.isError
          /\ result.text.t = "string"
          /\ result.text.s # <<>>
    /\ warnings > 0 =>
          /\ warnings = 1
          /\ response.status \notin 200..299
          /\ pc = "done" => result.isError

\* A 200 response whose body is not JSON has ended as an error-flagged result.
C6_Witness ==
    /\ pc = "done"
    /\ response.status = 200
    /\ response.body = <<255, 0>>
    /\ call.tool = "gamma_list_generations"
    /\ result.isError

\* A transport failure has ended as an error-flagged result.
C6_WitnessTransport ==
    /\ pc = "done"
    /\ requests # <<>>
    /\ response = NoResponse
    /\ result.isError

----------------------------------------------------------------------------
(* C7 *)

\* C7: a response with status 204 settles the call as Success-Empty
\* (undefined) whatever the expected response kind, and its body is never
\* read.
C7_NoContent ==
    response.status = 204 =>
        /\ pc \in {"settled", "done"}
        /\ outcome = Returned("undefined", JUndef, <<>>)
        /\ bodyReads = 0

\* get-asset (binary expected) has received a 204.
C7_Witness ==
    /\ response.status = 204
    /\ options.responseType = "binary"
    /\ pc = "settled"

----------------------------------------------------------------------------
(* C8 *)

IsFailure(o) ==
    /\ o.kind = "Thrown"
    /\ o.name = "Error"
    /\ Len(o.message) >= 1
    /\ o.message[1] = "Gamma API request failed: "

\* C8 as stated: once a call that issued its request has settled, its outcome
\* is Success-JSON, Success-Binary, Success-Empty or Failure.
C8_FourOutcomes ==
    (Settled /\ requests # <<>>) => (outcome.kind = "Returned" \/ IsFailure(outcome))

C8_Inv ==
    /\ Len(requests) <= 1
    /\ (Entered /\ ~KeysBlank(env) /\ ValidBase(getBaseUrl(env))) =>
          Len(requests) = 1
    /\ pc \in {"fetching", "safeReadJson", "arrayBuffer", "json"} =>
          (outcome = Pending /\ Len(requests) = 1)
    /\ (Settled /\ requests # <<>>) =>
          IF response = NoResponse
          THEN outcome = Thrown("TypeError", <<"fetch failed">>)
          ELSE IF response.status \notin 200..299 THEN IsFailure(outcome)
          ELSE IF response.status = 204 THEN outcome.kind = "Returned"
                                             /\ outcome.shape = "undefined"
          ELSE IF options.responseType = "binary"
               THEN outcome.kind = "Returned" /\ outcome.shape = "buffer"
          ELSE \/ outcome.kind = "Returned" /\ outcome.shape = "json"
               \/ outcome = Thrown("SyntaxError", <<"Unexpected token">>)

C8_Step ==
    /\ outcome # Pending => (outcome' = outcome \/ Idle')
    /\ requests # <<>> => (requests' = requests \/ Idle')

\* C8, amended: an invocation of callGamma whose configuration resolves
\* issues exactly one fetch and settles once: as Success-JSON,
\* Success-Binary, Success-Empty or Failure when a response arrives and reads
\* as expected, as the transport error when fetch rejects, as the parse error
\* when a 2xx body expected to be JSON is not.  Once settled the outcome never
\* changes and no second fetch is made for that invocation.
C8_OneCallOneOutcome == [](C8_Inv) /\ [][C8_Step]_vars

\* A call has issued its one request and settled as a Failure.
C8_Witness ==
    /\ pc = "done"
    /\ Len(requests) = 1
    /\ response.status = 404
    /\ IsFailure(outcome)

----------------------------------------------------------------------------
(* C9 *)

IsGetGen123 ==
    /\ call.tool = "gamma_get_generation"
    /\ call.args.generationId = JStr(<<"gen_123">>)

\* C9 as stated, read of a call that has got as far as fetch: get-generation
\* with id gen_123 issues exactly one GET request to
\* {baseURL}/generations/gen_123, without a query when expand is omitted and
\* with expand=true when expand is true.
C9_UrlUnderBaseUrl ==
    (IsGetGen123 /\ call.args.expand \in {JUndef, JBool(TRUE)}
        /\ pc = "fetching") =>
        /\ Len(requests) = 1
        /\ requests[1].method = <<"GET">>
        /\ Href(requests[1].url) =
              getBaseUrl(env) \o <<"/", "generations", "/", "gen_123">>
                 \o (IF call.args.expand = JUndef THEN <<>>
                     ELSE <<"?", "expand", "=", "true">>)

\* C9, amended: when an API key resolves and the base URL parses,
\* get-generation with id gen_123 issues exactly one GET request, to the
\* origin of the resolved base URL followed by /v0.2/generations/gen_123,
\* without a query when expand is omitted and with expand=true when expand is
\* true; otherwise it issues none.
C9_GetGeneration ==
    (IsGetGen123 /\ call.args.expand \in {JUndef, JBool(TRUE)}) =>
        IF ~KeysBlank(env) /\ ValidBase(getBaseUrl(env))
        THEN /\ Len(requests) = 1
             /\ requests[1].method = <<"GET">>
             /\ ~requests[1].hasBody
             /\ Href(requests[1].url) =
                   SubSeq(getBaseUrl(env), 1, 3)
                      \o <<"/", "v0.2", "/", "generations", "/", "gen_123">>
                      \o (IF call.args.expand = JUndef THEN <<>>
                          ELSE <<"?", "expand", "=", "true">>)
        ELSE requests = <<>>

\* get-generation gen_123 with expand true has issued its request to a base
\* URL that has a path of its own.
C9_Witness ==
    /\ IsGetGen123
    /\ call.args.expand = JBool(TRUE)
    /\ pc = "fetching"
    /\ getBaseUrl(env) = <<"https:", "//", "a.example", "/", "api", "/">>
    /\ requests[1].url.search = << <<"expand", <<"true">>>> >>

----------------------------------------------------------------------------
(* C10 *)

B64Index(c) == CHOOSE k \in 0..63 : Base64Alphabet[k + 1] = c

RECURSIVE Base64Decode(_)
\* The bytes a base64 text stands for.
Base64Decode(t) ==
    IF Len(t) < 4 THEN <<>>
    ELSE LET i1 == B64Index(t[1])
             i2 == B64Index(t[2])
         IN  (IF t[3] = "="
              THEN <<i1 * 4 + i2 \div 16>>
              ELSE IF t[4] = "="
              THEN <<i1 * 4 + i2 \div 16,
                     (i2 % 16) * 16 + B64Index(t[3]) \div 4>>
              ELSE <<i1 * 4 + i2 \div 16,
                     (i2 % 16) * 16 + B64Index(t[3]) \div 4,
                     (B64Index(t[3]) % 4) * 64 + B64Index(t[4])>>)
             \o Base64Decode(SubSeq(t, 5, Len(t)))

IsBase64(t) ==
    /\ Len(t) % 4 = 0
    /\ \A i \in 1..Len(t) :
          \/ \E k \in 1..64 : Base64Alphabet[k] = t[i]
          \/ t[i] = "=" /\ i > Len(t) - 2 /\ \A j \in i..Len(t) : t[j] = "="

\* C10: a 2xx response other than 204 to get-asset (binary expected) settles
\* the call as a Buffer of exactly the body's bytes, and the base64 text the
\* tool returns decodes to exactly those bytes.
C10_BinaryRoundTrip ==
    (call.tool = "gamma_get_asset" /\ response.status \in (200..299) \ {204}) =>
        /\ pc \in {"arrayBuffer", "settled", "done"}
        /\ Settled => outcome = Returned("buffer", JUndef, response.body)
        /\ pc = "done" =>
              /\ result.kind = "returned"
              /\ ~result.isError
              /\ result.text.t = "string"
              /\ IsBase64(result.text.s)
              /\ Base64Decode(result.text.s) = response.body

\* get-asset has returned ABCD/w== for the bytes 0, 16, 131, 255.
C10_Witness ==
    /\ pc = "done"
    /\ call.tool = "gamma_get_asset"
    /\ response.body = <<0, 16, 131, 255>>
    /\ result.text = JStr(<<"A", "B", "C", "D", "/", "w", "=", "=">>)

----------------------------------------------------------------------------
(* Invocations one after another while the environment changes between     *)
(* them, with the configuration of the last request remembered in lastUsed *)

RotationCalls ==
    {c \in ToolCalls :
        \/ /\ c.tool = "gamma_get_generation"
           /\ c.args.generationId = Gen123
           /\ c.args.expand = JUndef
        \/ /\ c.tool = "gamma_get_asset"
           /\ c.args.assetId = JStr(<<"asset_1">>)}

RotationResponses ==
    {r \in Responses :
        \/ r.status = 204
        \/ r.status = 200 /\ r.body \in {<<123, 125>>, <<255, 0>>}
        \/ r.status = 404 /\ r.body \in {<<>>, <<123, 125>>}}

\* The invocation is over; what its request used is remembered.
FinishRecord ==
    /\ pc = "done"
    /\ pc' = "idle"
    /\ call' = NoCall
    /\ options' = NoOptions
    /\ requests' = <<>>
    /\ response' = NoResponse
    /\ bodyReads' = 0
    /\ warnings' = 0
    /\ outcome' = Pending
    /\ result' = NoResult
    /\ lastUsed' = IF requests # <<>>
                   THEN [recorded |-> TRUE,
                         origin |-> requests[1].url.origin,
                         apiKey |-> requests[1].apiKey]
                   ELSE lastUsed
    /\ UNCHANGED env

RotationNext ==
    \/ \E c \in RotationCalls : ToolCall(c)
    \/ \E resp \in RotationResponses : FetchResolve(resp)
    \/ FetchReject
    \/ ReadErrorBody
    \/ ReadArrayBuffer
    \/ ReadJson
    \/ HandlerResume
    \/ FinishRecord
    \/ \E name \in EnvNames : \E value \in EnvValues(name) : SetEnv(name, value)

RotationSpec == Init /\ [][RotationNext]_vars

----------------------------------------------------------------------------
(* C11 *)

\* x without its leading and trailing white space.
TrimmedOf(x) ==
    CHOOSE t \in {SubSeq(x, a, b) : a \in 1..(Len(x) + 1), b \in 0..Len(x)} :
        IsTrimOf(t, x)

\* The variable that decides, namespaced before legacy, or the fallback.
Deciding(e, namespaced, legacy, fallback) ==
    IF NonBlank(e[namespaced]) THEN TrimmedOf(e[namespaced].s)
    ELSE IF NonBlank(e[legacy]) THEN TrimmedOf(e[legacy].s)
    ELSE fallback

\* C11: the request of every invocation carries the API key and goes to the
\* base URL that the environment holds while that invocation runs, whatever
\* earlier invocations used and however the environment changed in between;
\* both come from the same environment.
C11_FreshConfig ==
    requests # <<>> =>
        /\ requests[1].apiKey = Deciding(env, NS_API_KEY, LEGACY_API_KEY, <<>>)
        /\ requests[1].url.origin =
              SubSeq(Deciding(env, NS_BASE_URL, LEGACY_BASE_URL,
                              <<"https:", "//", "public-api.gamma.app">>), 1, 3)

\* An earlier request used another key and another base URL than the request
\* now in flight: both variables changed between the two invocations.
C11_Witness ==
    /\ lastUsed.recorded
    /\ pc = "fetching"
    /\ lastUsed.apiKey = <<"key-legacy">>
    /\ requests[1].apiKey = <<"key-ns">>
    /\ lastUsed.origin = <<"https:", "//", "public-api.gamma.app">>
    /\ requests[1].url.origin = <<"https:", "//", "b.example">>

----------------------------------------------------------------------------
(* C12 *)

\* C12: every invocation that completes without an error returns one text
\* item whose text is a defined string, the JSON of the outcome for the three
\* JSON tools and the base64 of the bytes for get-asset; and every successful
\* upstream response that yields an outcome, a 204 included, completes so.
C12_TextIsString ==
    pc = "done" =>
        /\ (result.kind = "returned" /\ ~result.isError) =>
              /\ result.type = "text"
              /\ result.text.t = "string"
              /\ outcome.kind = "Returned"
              /\ result.text.s = IF call.tool = "gamma_get_asset"
                                 THEN Base64Encode(outcome.bytes)
                                 ELSE JSONStringify(outcome.value)
        /\ response.status = 204 =>
              /\ result.kind = "returned"
              /\ ~result.isError
              /\ result.text.t = "string"

----------------------------------------------------------------------------
(* C13 *)

IsCreate == call # NoCall /\ call.tool = "gamma_create_generation"

\* The start of a JSON object whose first member is inputText with value text
\* (text holding no character that JSON escapes).
InputTextMember(text) ==
    <<"{", "\"", "inputText", "\"", ":", "\"">> \o text \o <<"\"">>

StartsWith(x, prefix) ==
    /\ Len(x) >= Len(prefix)
    /\ SubSeq(x, 1, Len(prefix)) = prefix

\* inputText absent or empty: the error result, and neither configuration
\* resolved nor a request issued.
GuardRefuses ==
    /\ pc = "done"
    /\ result = ToolReturn(TRUE,
         JStr(<<"inputText must be provided to create a Gamma generation.">>))
    /\ options = NoOptions
    /\ outcome = Pending
    /\ requests = <<>>
    /\ response = NoResponse

\* One POST to the generations path whose body carries the inputText.
OnePostCarrying(text) ==
    /\ Len(requests) = 1
    /\ requests[1].method = <<"POST">>
    /\ requests[1].url.pathname = <<"/", "v0.2", "/", "generations">>
    /\ requests[1].url.search = <<>>
    /\ requests[1].hasBody
    /\ StartsWith(requests[1].body, InputTextMember(text))

\* The claim as stated: every create-generation call with a non-empty
\* inputText issues one POST carrying it.
C13_NonEmptyIssuesPost ==
    IsCreate =>
        IF call.args.inputText \in {JUndef, JStr(<<>>)}
        THEN GuardRefuses
        ELSE OnePostCarrying(call.args.inputText.s)

\* C13: create-generation called with inputText absent or empty returns the
\* error result saying inputText must be provided, without resolving
\* configuration or issuing a request; called with a non-empty inputText it
\* issues one POST to /v0.2/generations whose body carries that inputText
\* unchanged when an API key resolves and the base URL parses, and no request
\* otherwise.
C13_InputGuard ==
    IsCreate =>
        IF call.args.inputText \in {JUndef, JStr(<<>>)}
        THEN GuardRefuses
        ELSE IF ~KeysBlank(env) /\ ValidBase(getBaseUrl(env))
             THEN OnePostCarrying(call.args.inputText.s)
             ELSE requests = <<>> /\ Settled /\ outcome.kind = "Thrown"

\* The guard case: an empty inputText in an environment that has a key.
C13_Witness ==
    /\ IsCreate
    /\ call.args.inputText = JStr(<<>>)
    /\ ~KeysBlank(env)
    /\ pc = "done"
    /\ result.isError

\* The other case: a blank, non-empty inputText is sent as it is.
C13_WitnessPost ==
    /\ IsCreate
    /\ call.args.inputText = JStr(<<" ">>)
    /\ pc = "fetching"
    /\ requests[1].body = InputTextMember(<<" ">>) \o <<"}">>

====
